---- MODULE Spec2Model ----
(***************************************************************************)
(* Divide-and-conquer earthquake epicenter locator                         *)
(* (src/earthquake_locator.cpp, class EarthquakeEpicenterLocator).         *)
(*                                                                         *)
(* The recursion of locateEpicenter is unfolded into a call stack: every   *)
(* frame is one activation of locateEpicenter with its stations, bounds,   *)
(* quadrants, loop index and collected results.                            *)
(*                                                                         *)
(* Numbers.  The doubles of the program are carried as integers:           *)
(*   - latitudes and longitudes in units of 1/Unit degree, Unit a power of *)
(*     two, so that every midpoint (min + max) / 2 the recursion can       *)
(*     compute within StackLimit levels is exact, as it is for doubles;    *)
(*   - times, weights and confidences in units of 1/Scale;                 *)
(*   - EpicenterResult.error in whole units (the 1e9 sentinel has to fit   *)
(*     TLC's 32-bit integers), rounded down from the 1/Scale value the     *)
(*     estimator accumulates.                                              *)
(***************************************************************************)
EXTENDS Integers, Sequences, FiniteSets, TLC

\* ---------------------------------------------------------------- constants
BASE_CASE_SIZE == 8
WAVE_VELOCITY == 6
NoDataError == 1000000000

\* ------------------------------------------------------------------- bounds
MaxCoord == 4
MaxStations == 10
StackLimit == 5
Scale == 1000

Unit == 2 ^ StackLimit
Periods == {1, 2, 3}
TimeSteps == {0, 1}
TimeCycle == {0, 1, 2}
\* 0/0 of the combiner: the IEEE quiet NaN, kept apart from every real value.
NaN == 0 - 1

VARIABLES stack, ret, status, result, input, nsplit, ncombine

vars == <<stack, ret, status, result, input, nsplit, ncombine>>

\* ------------------------------------------------------------- data types
SeismicStation(_id, lat, lon, time) ==
    [id |-> _id, latitude |-> lat, longitude |-> lon, detection_time |-> time]

Point(_x, _y) == [x |-> _x, y |-> _y]

GeoBounds(minLat, maxLat, minLon, maxLon) ==
    [min_lat |-> minLat, max_lat |-> maxLat, min_lon |-> minLon, max_lon |-> maxLon]

contains(b, station) ==
    /\ station.latitude >= b.min_lat
    /\ station.latitude <= b.max_lat
    /\ station.longitude >= b.min_lon
    /\ station.longitude <= b.max_lon

Quadrant(b) ==
    [bounds |-> b, stations |-> <<>>, estimate |-> Point(0, 0), confidence |-> 0]

EpicenterResult(loc, conf, err) ==
    [location |-> loc, confidence |-> conf, error |-> err]

\* --------------------------------------------------------------- arithmetic
\* Newton's iteration from above: the floor of the square root
RECURSIVE SqrtFrom(_, _)
SqrtFrom(n, x) ==
    LET y == (x + n \div x) \div 2
    IN IF y >= x THEN x ELSE SqrtFrom(n, y)

Sqrt(n) == IF n = 0 THEN 0 ELSE SqrtFrom(n, n)

distance(p, q) ==
    Sqrt((p.x - q.x) * (p.x - q.x) + (p.y - q.y) * (p.y - q.y))

RECURSIVE MinTimeFrom(_, _, _)
MinTimeFrom(stations, i, m) ==
    IF i > Len(stations) THEN m
    ELSE MinTimeFrom(stations, i + 1,
                     IF stations[i].detection_time < m
                     THEN stations[i].detection_time ELSE m)

\* ------------------------------------------------- simpleTriangulation
\* weight = 1.0 / (1.0 + time_diff * time_diff), in 1/Scale
Weight(station, min_time) ==
    LET time_diff == station.detection_time - min_time
    IN (Scale * Scale) \div (Scale + (time_diff * time_diff) \div Scale)

RECURSIVE SumX(_, _, _)
SumX(stations, min_time, i) ==
    IF i > Len(stations) THEN 0
    ELSE stations[i].latitude * Weight(stations[i], min_time)
         + SumX(stations, min_time, i + 1)

RECURSIVE SumY(_, _, _)
SumY(stations, min_time, i) ==
    IF i > Len(stations) THEN 0
    ELSE stations[i].longitude * Weight(stations[i], min_time)
         + SumY(stations, min_time, i + 1)

RECURSIVE TotalWeight(_, _, _)
TotalWeight(stations, min_time, i) ==
    IF i > Len(stations) THEN 0
    ELSE Weight(stations[i], min_time) + TotalWeight(stations, min_time, i + 1)

\* one term of the residual sum, in 1/Scale
Residual(station, estimated_center, min_time) ==
    LET dist == distance(estimated_center, Point(station.latitude, station.longitude))
        theoretical_time == (dist * Scale) \div (Unit * WAVE_VELOCITY)
        actual_time == station.detection_time - min_time
    IN ((theoretical_time - actual_time) * (theoretical_time - actual_time)) \div Scale

RECURSIVE SumResiduals(_, _, _, _)
SumResiduals(stations, estimated_center, min_time, i) ==
    IF i > Len(stations) THEN 0
    ELSE Residual(stations[i], estimated_center, min_time)
         + SumResiduals(stations, estimated_center, min_time, i + 1)

\* line 129
EmptySetEstimate_ZeroError == EpicenterResult(Point(0, 0), 0, 0)

EmptySetEstimate == EpicenterResult(Point(0, 0), 0, NoDataError)

simpleTriangulation(stations) ==
    IF Len(stations) = 0
    THEN EmptySetEstimate
    ELSE IF Len(stations) = 1
    THEN EpicenterResult(Point(stations[1].latitude, stations[1].longitude), Scale, 0)
    ELSE LET min_time == MinTimeFrom(stations, 1, stations[1].detection_time)
             total_weight == TotalWeight(stations, min_time, 1)
             estimated_center == Point(SumX(stations, min_time, 1) \div total_weight,
                                       SumY(stations, min_time, 1) \div total_weight)
             error == SumResiduals(stations, estimated_center, min_time, 1)
             confidence == (Scale * Scale) \div (Scale + error \div Len(stations))
         IN EpicenterResult(estimated_center, confidence, error \div Scale)

\* ------------------------------------------------- weightedCombination
RECURSIVE SumConfidence(_, _)
SumConfidence(results, i) ==
    IF i > Len(results) THEN 0
    ELSE results[i].confidence + SumConfidence(results, i + 1)

RECURSIVE SumWeightedX(_, _)
SumWeightedX(results, i) ==
    IF i > Len(results) THEN 0
    ELSE results[i].location.x * results[i].confidence + SumWeightedX(results, i + 1)

RECURSIVE SumWeightedY(_, _)
SumWeightedY(results, i) ==
    IF i > Len(results) THEN 0
    ELSE results[i].location.y * results[i].confidence + SumWeightedY(results, i + 1)

RECURSIVE SumWeightedError(_, _)
SumWeightedError(results, i) ==
    IF i > Len(results) THEN 0
    ELSE results[i].error * results[i].confidence + SumWeightedError(results, i + 1)

weightedCombination(results) ==
    IF Len(results) = 0
    THEN EpicenterResult(Point(0, 0), 0, NoDataError)
    ELSE IF Len(results) = 1
    THEN results[1]
    ELSE LET total_weight == SumConfidence(results, 1)
         IN IF total_weight = 0
            THEN \* 0.0 / 0.0 on every weighted average
                 EpicenterResult(Point(NaN, NaN), 0, NaN)
            ELSE EpicenterResult(
                     Point(SumWeightedX(results, 1) \div total_weight,
                           SumWeightedY(results, 1) \div total_weight),
                     total_weight \div Len(results),
                     SumWeightedError(results, 1) \div total_weight)

\* ------------------------------------------------- locateEpicenter: divide
IsBaseCase_Strict(stations) == Len(stations) < BASE_CASE_SIZE

IsBaseCase(stations) == Len(stations) <= BASE_CASE_SIZE

Mid(a, b) == (a + b) \div 2

\* the fourth quadrant built on the western longitudes
SplitQuadrants_WestTwice(bounds) ==
    LET mid_lat == Mid(bounds.min_lat, bounds.max_lat)
        mid_lon == Mid(bounds.min_lon, bounds.max_lon)
    IN << Quadrant(GeoBounds(bounds.min_lat, mid_lat, bounds.min_lon, mid_lon)),
          Quadrant(GeoBounds(bounds.min_lat, mid_lat, mid_lon, bounds.max_lon)),
          Quadrant(GeoBounds(mid_lat, bounds.max_lat, bounds.min_lon, mid_lon)),
          Quadrant(GeoBounds(mid_lat, bounds.max_lat, bounds.min_lon, mid_lon)) >>

\* the quadrants in the order SW, SE, NW, NE
SplitQuadrants(bounds) ==
    LET mid_lat == Mid(bounds.min_lat, bounds.max_lat)
        mid_lon == Mid(bounds.min_lon, bounds.max_lon)
    IN << Quadrant(GeoBounds(bounds.min_lat, mid_lat, bounds.min_lon, mid_lon)),
          Quadrant(GeoBounds(bounds.min_lat, mid_lat, mid_lon, bounds.max_lon)),
          Quadrant(GeoBounds(mid_lat, bounds.max_lat, bounds.min_lon, mid_lon)),
          Quadrant(GeoBounds(mid_lat, bounds.max_lat, mid_lon, bounds.max_lon)) >>

\* the inner loop without its break
RECURSIVE AssignStation_NoBreak(_, _, _)
AssignStation_NoBreak(quadrants, station, k) ==
    IF k > Len(quadrants) THEN quadrants
    ELSE IF contains(quadrants[k].bounds, station)
    THEN AssignStation_NoBreak([quadrants EXCEPT ![k].stations = Append(@, station)],
                               station, k + 1)
    ELSE AssignStation_NoBreak(quadrants, station, k + 1)

\* the inner loop run from the last quadrant to the first
RECURSIVE AssignStation_Backwards(_, _, _)
AssignStation_Backwards(quadrants, station, k) ==
    IF k > Len(quadrants) THEN quadrants
    ELSE IF contains(quadrants[Len(quadrants) + 1 - k].bounds, station)
    THEN [quadrants EXCEPT ![Len(quadrants) + 1 - k].stations = Append(@, station)]
    ELSE AssignStation_Backwards(quadrants, station, k + 1)

\* a station no quadrant contains falls into the last quadrant
RECURSIVE AssignStation_DefaultLast(_, _, _)
AssignStation_DefaultLast(quadrants, station, k) ==
    IF k > Len(quadrants)
    THEN [quadrants EXCEPT ![Len(quadrants)].stations = Append(@, station)]
    ELSE IF contains(quadrants[k].bounds, station)
    THEN [quadrants EXCEPT ![k].stations = Append(@, station)]
    ELSE AssignStation_DefaultLast(quadrants, station, k + 1)

\* the inner loop with its break: the first quadrant from k on that contains
\* the station takes it
RECURSIVE AssignStation(_, _, _)
AssignStation(quadrants, station, k) ==
    IF k > Len(quadrants) THEN quadrants
    ELSE IF contains(quadrants[k].bounds, station)
    THEN [quadrants EXCEPT ![k].stations = Append(@, station)]
    ELSE AssignStation(quadrants, station, k + 1)

RECURSIVE PartitionStations(_, _, _)
PartitionStations(quadrants, stations, i) ==
    IF i > Len(stations) THEN quadrants
    ELSE PartitionStations(AssignStation(quadrants, stations[i], 1), stations, i + 1)

ShouldRecurse_Always(quad) == TRUE

ShouldRecurse(quad) == quad.stations # <<>>

\* ------------------------------------------------------------ call stack
NewFrame(stations, bounds) ==
    [stations |-> stations, bounds |-> bounds, pc |-> "entry",
     quadrants |-> <<>>, qi |-> 0, results |-> <<>>,
     called |-> <<>>, collected |-> <<>>]

\* the call handed the caller's own station list
CalleeFrame_WholeSet(frame, k) ==
    NewFrame(frame.stations, frame.quadrants[k].bounds)

\* the arguments of the recursive call for quadrant k
CalleeFrame(frame, k) ==
    NewFrame(frame.quadrants[k].stations, frame.quadrants[k].bounds)

Top == stack[Len(stack)]
Pop == SubSeq(stack, 1, Len(stack) - 1)
SetTop(frame) == [stack EXCEPT ![Len(stack)] = frame]

\* ------------------------------------------------------------ the inputs
\* Station i sits at whole degrees (a + i % pa, b + i % pb), wrapped into
\* 0..MaxCoord, and detects at (i * dt) % 3 seconds: co-located stations
\* (pa = pb = 1), lines and small blocks of stations, inside, on the border
\* of and outside the region.
StationAt(i, a, pa, b, pb, dt) ==
    SeismicStation(i,
                   ((a + (i % pa)) % (MaxCoord + 1)) * Unit,
                   ((b + (i % pb)) % (MaxCoord + 1)) * Unit,
                   ((i * dt) % Cardinality(TimeCycle)) * Scale)

Init ==
    \E n \in 0..MaxStations, a \in 0..MaxCoord, b \in 0..MaxCoord,
       pa \in Periods, pb \in Periods, dt \in TimeSteps,
       lo \in {0, 1}, hi \in {MaxCoord - 1, MaxCoord} :
        LET stations == [i \in 1..n |-> StationAt(i, a, pa, b, pb, dt)]
            bounds == GeoBounds(lo * Unit, MaxCoord * Unit, 0, hi * Unit)
        IN /\ input = [stations |-> stations, bounds |-> bounds]
           /\ stack = << NewFrame(stations, bounds) >>
           /\ ret = <<>>
           /\ status = "running"
           /\ result = <<>>
           /\ nsplit = 0
           /\ ncombine = 0

\* ------------------------------------------------------------ the actions
Running == status = "running" /\ stack # <<>>

\* `return value;` of the top activation
Return(value) ==
    IF Len(stack) = 1
    THEN /\ stack' = <<>>
         /\ result' = << value >>
         /\ status' = "returned"
         /\ ret' = <<>>
    ELSE /\ stack' = Pop
         /\ ret' = << value >>
         /\ UNCHANGED <<result, status>>

\* lines 85-87
BaseCase ==
    /\ Running /\ ret = <<>>
    /\ Top.pc = "entry"
    /\ IsBaseCase(Top.stations)
    /\ Return(simpleTriangulation(Top.stations))
    /\ UNCHANGED <<input, nsplit, ncombine>>

\* lines 89-108
Divide ==
    /\ Running /\ ret = <<>>
    /\ Top.pc = "entry"
    /\ ~IsBaseCase(Top.stations)
    /\ stack' = SetTop([Top EXCEPT
                          !.quadrants = PartitionStations(SplitQuadrants(Top.bounds),
                                                          Top.stations, 1),
                          !.pc = "recurse",
                          !.qi = 1])
    /\ nsplit' = nsplit + 1
    /\ UNCHANGED <<ret, status, result, input, ncombine>>

\* lines 113-114: the call
Recurse ==
    /\ Running /\ ret = <<>>
    /\ Top.pc = "recurse"
    /\ Top.qi <= Len(Top.quadrants)
    /\ ShouldRecurse(Top.quadrants[Top.qi])
    /\ Len(stack) < StackLimit
    /\ stack' = Append(SetTop([Top EXCEPT !.called = Append(@, Top.qi)]),
                       CalleeFrame(Top, Top.qi))
    /\ UNCHANGED <<ret, status, result, input, nsplit, ncombine>>

\* lines 113-114 with the stack used up: the process dies
StackOverflow ==
    /\ Running /\ ret = <<>>
    /\ Top.pc = "recurse"
    /\ Top.qi <= Len(Top.quadrants)
    /\ ShouldRecurse(Top.quadrants[Top.qi])
    /\ Len(stack) >= StackLimit
    /\ status' = "stack_overflow"
    /\ UNCHANGED <<stack, ret, result, input, nsplit, ncombine>>

\* lines 114-117: the call has returned
Collect ==
    /\ Running /\ ret # <<>>
    /\ Top.pc = "recurse"
    /\ stack' = SetTop([Top EXCEPT
                          !.quadrants[Top.qi].estimate = ret[1].location,
                          !.quadrants[Top.qi].confidence = ret[1].confidence,
                          !.results = Append(@, ret[1]),
                          !.collected = Append(@, Top.qi),
                          !.qi = @ + 1])
    /\ ret' = <<>>
    /\ UNCHANGED <<status, result, input, nsplit, ncombine>>

\* line 113, quadrant without stations
SkipEmpty ==
    /\ Running /\ ret = <<>>
    /\ Top.pc = "recurse"
    /\ Top.qi <= Len(Top.quadrants)
    /\ ~ShouldRecurse(Top.quadrants[Top.qi])
    /\ stack' = SetTop([Top EXCEPT !.qi = @ + 1])
    /\ UNCHANGED <<ret, status, result, input, nsplit, ncombine>>

\* line 122
Combine ==
    /\ Running /\ ret = <<>>
    /\ Top.pc = "recurse"
    /\ Top.qi > Len(Top.quadrants)
    /\ ncombine' = ncombine + 1
    /\ Return(weightedCombination(Top.results))
    /\ UNCHANGED <<input, nsplit>>

Next ==
    \/ BaseCase
    \/ Divide
    \/ Recurse
    \/ StackOverflow
    \/ Collect
    \/ SkipEmpty
    \/ Combine

Spec == Init /\ [][Next]_vars

\* ------------------------------------------------------------ sanity
MidExact ==
    \A d \in 1..Len(stack) :
        /\ (stack[d].bounds.min_lat + stack[d].bounds.max_lat) % 2 = 0
        /\ (stack[d].bounds.min_lon + stack[d].bounds.max_lon) % 2 = 0

SameSite(stations) ==
    \A i, j \in 1..Len(stations) :
        /\ stations[i].latitude = stations[j].latitude
        /\ stations[i].longitude = stations[j].longitude

OverflowOnlyWhenCoLocated ==
    status = "stack_overflow" => SameSite(Top.stations)

\* ------------------------------------------------------------ vocabulary
Divided(d) == stack[d].pc = "recurse"

Inside(b, lat, lon) ==
    b.min_lat <= lat /\ lat <= b.max_lat /\ b.min_lon <= lon /\ lon <= b.max_lon

StationInside(b, s) == Inside(b, s.latitude, s.longitude)

QuadIndex(f) == 1..Len(f.quadrants)

\* the ids of the stations quadrant k of frame f holds
IdsIn(f, k) ==
    {f.quadrants[k].stations[j].id : j \in 1..Len(f.quadrants[k].stations)}

\* how many times station s occurs in the quadrants of f
Copies(f, s) ==
    Cardinality({kj \in QuadIndex(f) \X (1..Len(f.stations)) :
                    /\ kj[2] <= Len(f.quadrants[kj[1]].stations)
                    /\ f.quadrants[kj[1]].stations[kj[2]] = s})

RECURSIVE CountAssigned(_, _)
CountAssigned(f, k) ==
    IF k > Len(f.quadrants) THEN 0
    ELSE Len(f.quadrants[k].stations) + CountAssigned(f, k + 1)

NonEmptyQuads(f) == {k \in QuadIndex(f) : Len(f.quadrants[k].stations) > 0}

Range(seq) == {seq[j] : j \in 1..Len(seq)}

Increasing(seq) == \A i, j \in 1..Len(seq) : i < j => seq[i] < seq[j]

Sentinel == [location |-> [x |-> 0, y |-> 0], confidence |-> 0, error |-> 1000000000]

\* the quadrants that contain station s, by their bounds
Containing(f, s) == {k \in QuadIndex(f) : StationInside(f.quadrants[k].bounds, s)}

Least(S) == CHOOSE k \in S : \A m \in S : k <= m

\* ------------------------------------------------------------ claims

\* C1: every call of locateEpicenter terminates: the recursion reaches its
\* base cases and the top-level call returns, so it never runs out of stack.
C1_Terminates == status # "stack_overflow"

\* the top activation has just run its partition step (lines 89-108)
Partitioned ==
    /\ status = "running" /\ stack # <<>>
    /\ Top.pc = "recurse" /\ Top.qi = 1 /\ Top.called = <<>>

AllInside(f) == \A i \in 1..Len(f.stations) : StationInside(f.bounds, f.stations[i])

\* C2: station conservation: when every station of a call that splits lies
\* within its region, the four quadrants together hold after the partition
\* step as many stations as the call was given, and each station exactly once.
C2_StationConservation ==
    (Partitioned /\ AllInside(Top))
    => /\ Len(Top.stations) > 8
       /\ CountAssigned(Top, 1) = Len(Top.stations)
       /\ \A i \in 1..Len(Top.stations) : Copies(Top, Top.stations[i]) = 1

\* a partition with every station inside the region, two or more quadrants
\* populated and a station on a split line
C2_Witness ==
    /\ Partitioned
    /\ AllInside(Top)
    /\ Cardinality(NonEmptyQuads(Top)) >= 2
    /\ \E i \in 1..Len(Top.stations) : Cardinality(Containing(Top, Top.stations[i])) >= 2

\* the coordinates probed on one axis: the whole degrees and the neighbours of
\* the bounds and of the midpoint
Probes(lo, hi) ==
    {c * Unit : c \in 0..MaxCoord}
    \cup {lo - 1, lo, lo + 1, hi - 1, hi, hi + 1}
    \cup {(lo + hi) \div 2 - 1, (lo + hi) \div 2, (lo + hi) \div 2 + 1}

\* C3: partition coverage: a point is in the region that is split exactly when
\* it is in at least one of the four quadrants, and a point in two different
\* quadrants lies on the midpoint latitude or the midpoint longitude.
C3_PartitionCoverage ==
    Partitioned =>
    LET b == Top.bounds
    IN \A lat \in Probes(b.min_lat, b.max_lat), lon \in Probes(b.min_lon, b.max_lon) :
        LET In == {k \in QuadIndex(Top) : Inside(Top.quadrants[k].bounds, lat, lon)}
        IN /\ Len(Top.quadrants) = 4
           /\ Inside(b, lat, lon) <=> In # {}
           /\ Cardinality(In) >= 2
              => \/ 2 * lat = b.min_lat + b.max_lat
                 \/ 2 * lon = b.min_lon + b.max_lon

\* a region of positive area just split, its four quadrants all populated
C3_Witness ==
    /\ Partitioned
    /\ Top.bounds.min_lat < Top.bounds.max_lat
    /\ Top.bounds.min_lon < Top.bounds.max_lon
    /\ Cardinality(NonEmptyQuads(Top)) = 4

\* C4: with at most BASE_CASE_SIZE stations (exactly 8 included), whatever the
\* region, locateEpicenter returns what simpleTriangulation returns on the
\* same stations, and it neither splits the region nor calls the combiner.
C4_BaseCaseEquivalence ==
    Len(input.stations) <= 8 =>
        /\ nsplit = 0
        /\ ncombine = 0
        /\ status # "stack_overflow"
        /\ status = "returned" => result = << simpleTriangulation(input.stations) >>

\* a returned call on exactly 8 stations that a split would have spread over
\* two quadrants or more
C4_Witness ==
    /\ status = "returned"
    /\ Len(input.stations) = 8
    /\ \E i, j \in 1..Len(input.stations) :
          LET mid == (input.bounds.min_lat + input.bounds.max_lat) \div 2
          IN /\ StationInside(input.bounds, input.stations[i])
             /\ StationInside(input.bounds, input.stations[j])
             /\ input.stations[i].latitude < mid
             /\ input.stations[j].latitude > mid

\* C5: with no stations, whatever the region, locateEpicenter returns the
\* location (0,0), confidence 0 and error 1e9, and does not fail.
C5_EmptySetSentinel ==
    Len(input.stations) = 0 =>
        /\ status # "stack_overflow"
        /\ status = "running" => (stack # <<>> /\ Top.pc = "entry" /\ nsplit = 0)
        /\ status = "returned" => result = << Sentinel >>

\* a returned call on no stations
C5_Witness ==
    /\ Len(input.stations) = 0
    /\ status = "returned"
    /\ result # <<>>

\* whether activation d is inside the recursive call for its quadrant qi
InCall(d) == d < Len(stack) \/ ret # <<>>

\* C6: a call that splits makes a recursive call for a quadrant exactly when
\* the quadrant received a station; the combiner runs once per such call, after
\* all its recursive calls have returned, on one sub-result per non-empty
\* quadrant in the order SW, SE, NW, NE.
C6_RecurseIffNonEmpty ==
    /\ \A d \in 1..Len(stack) :
          Divided(d) =>
          LET f == stack[d]
              passed == {k \in NonEmptyQuads(f) : k < f.qi}
          IN /\ Increasing(f.called)
             /\ Increasing(f.collected)
             /\ Range(f.collected) = passed
             /\ Range(f.called) = passed \cup (IF InCall(d) THEN {f.qi} ELSE {})
             /\ Range(f.called) \subseteq NonEmptyQuads(f)
             /\ Len(f.results) = Len(f.collected)
             /\ \A j \in 1..Len(f.results) :
                   /\ f.quadrants[f.collected[j]].estimate = f.results[j].location
                   /\ f.quadrants[f.collected[j]].confidence = f.results[j].confidence
    /\ ncombine + Cardinality({d \in 1..Len(stack) : Divided(d)}) = nsplit
    /\ status = "returned" => ncombine = nsplit

\* a call about to combine the sub-results of two or three quadrants, the
\* others having stayed empty
C6_Witness ==
    /\ status = "running" /\ stack # <<>> /\ ret = <<>>
    /\ Top.pc = "recurse"
    /\ Top.qi > Len(Top.quadrants)
    /\ Len(Top.results) >= 2
    /\ Len(Top.results) < Len(Top.quadrants)

\* the quadrant of region b on the southern or northern, western or eastern side
QuadrantOf(b, north, east) ==
    [min_lat |-> IF north THEN (b.min_lat + b.max_lat) \div 2 ELSE b.min_lat,
     max_lat |-> IF north THEN b.max_lat ELSE (b.min_lat + b.max_lat) \div 2,
     min_lon |-> IF east THEN (b.min_lon + b.max_lon) \div 2 ELSE b.min_lon,
     max_lon |-> IF east THEN b.max_lon ELSE (b.min_lon + b.max_lon) \div 2]

\* C7 as stated: every recursive call receives strictly fewer stations than
\* its caller, and a region that is one quadrant of the caller's region.
C7_StrictlyFewer ==
    \A d \in 2..Len(stack) :
        /\ Len(stack[d].stations) < Len(stack[d - 1].stations)
        /\ \E north, east \in BOOLEAN :
              stack[d].bounds = QuadrantOf(stack[d - 1].bounds, north, east)

\* C7 as amended: every recursive call receives no more stations than its
\* caller, as many only when every station of the caller fell into that one
\* quadrant, and a region that is one quadrant of the caller's region.
C7_NoMoreStations ==
    \A d \in 2..Len(stack) :
        LET caller == stack[d - 1]
            callee == stack[d]
        IN /\ Len(callee.stations) <= Len(caller.stations)
           /\ Len(callee.stations) = Len(caller.stations)
              => /\ NonEmptyQuads(caller) = {caller.qi}
                 /\ \A i \in 1..Len(caller.stations) :
                       StationInside(callee.bounds, caller.stations[i])
           /\ \E north, east \in BOOLEAN :
                 callee.bounds = QuadrantOf(caller.bounds, north, east)

\* a recursive call handed all the stations of its caller, which are not all
\* at one place
C7_Witness ==
    \E d \in 2..Len(stack) :
        /\ Len(stack[d].stations) = Len(stack[d - 1].stations)
        /\ ~SameSite(stack[d].stations)

\* C8: the partition step puts each station into the first quadrant, in the
\* order SW, SE, NW, NE, whose inclusive bounds contain it, and into no other.
C8_FirstQuadrantWins ==
    Partitioned =>
    \A i \in 1..Len(Top.stations) :
        LET s == Top.stations[i]
            K == Containing(Top, s)
        IN \A k \in QuadIndex(Top) :
            (s.id \in IdsIn(Top, k)) <=> (K # {} /\ k = Least(K))

\* a station on both split lines, which all four quadrants contain
C8_Witness ==
    /\ Partitioned
    /\ \E i \in 1..Len(Top.stations) :
          Cardinality(Containing(Top, Top.stations[i])) = 4

\* C9: no estimate handed to the combiner has confidence 0: each sub-result a
\* call collects has confidence above 0 and is not the no-data estimate, so the
\* divisor of a combination of two or more results is not 0.
C9_CombinerWeightsPositive ==
    \A d \in 1..Len(stack) :
        /\ \A j \in 1..Len(stack[d].results) :
              /\ stack[d].results[j].confidence > 0
              /\ stack[d].results[j] # Sentinel
        /\ (Divided(d) /\ stack[d].qi > Len(stack[d].quadrants)
             /\ Len(stack[d].results) >= 2)
           => SumConfidence(stack[d].results, 1) > 0

\* a recursive call about to combine two or more sub-results
C9_Witness ==
    /\ status = "running" /\ Len(stack) >= 2 /\ ret = <<>>
    /\ Top.pc = "recurse"
    /\ Top.qi > Len(Top.quadrants)
    /\ Len(Top.results) >= 2

\* C10: a call with more than 8 stations assigns a station outside its region
\* to no quadrant and passes it to no recursive call, the stations passed down
\* being exactly those inside the region; with every station outside, the
\* combiner gets an empty list and the result is (0,0), confidence 0, error 1e9.
C10_OutsideStationsDropped ==
    /\ Partitioned
       => \A i \in 1..Len(Top.stations) :
              Copies(Top, Top.stations[i])
                = (IF StationInside(Top.bounds, Top.stations[i]) THEN 1 ELSE 0)
    /\ \A d \in 2..Len(stack) :
          /\ stack[d].stations = stack[d - 1].quadrants[stack[d - 1].qi].stations
          /\ \A i \in 1..Len(stack[d].stations) :
                StationInside(stack[d - 1].bounds, stack[d].stations[i])
    /\ \A d \in 1..Len(stack) :
          (Divided(d) /\ stack[d].qi > Len(stack[d].quadrants) /\ ~InCall(d)
           /\ \A i \in 1..Len(stack[d].stations) :
                 ~StationInside(stack[d].bounds, stack[d].stations[i]))
          => stack[d].results = <<>>
    /\ (/\ status = "returned"
        /\ Len(input.stations) > 8
        /\ \A i \in 1..Len(input.stations) :
              ~StationInside(input.bounds, input.stations[i]))
       => (result = << Sentinel >> /\ nsplit = 1 /\ ncombine = 1)

\* a returned call on more than 8 stations, all of them outside the region
C10_Witness ==
    /\ status = "returned"
    /\ Len(input.stations) > 8
    /\ \A i \in 1..Len(input.stations) :
          ~StationInside(input.bounds, input.stations[i])

====
